---- MODULE Spec2Model ----
(***************************************************************************)
(* Model of the boneIO resilience layer:                                   *)
(*   - boneio/mqtt_client.py : MQTTClient (supervisor loop start_client,   *)
(*     session _subscribe_manager, drain task _handle_publish, dispatch    *)
(*     task handle_messages, producer entry send_message);                 *)
(*   - boneio/modbus.py      : Modbus (read_single_register,               *)
(*     read_multiple_registers, async_close).                              *)
(* The two halves do not share state; each has its own specification       *)
(* (Spec / FairSpec for MQTT, SpecModbus for the bus) over the same        *)
(* variables, the other half staying at its initial value.                 *)
(***************************************************************************)
EXTENDS Naturals, Sequences, FiniteSets, TLC

(* ------------------------------ bounds --------------------------------- *)
\* number of successful broker connects (sessions) explored
MaxSessions == 2
\* number of send_message calls explored
MaxSends == 2
\* number of backoff sleeps remembered since start / the last connect
SleepLogLen == 2
\* number of read calls each bus caller makes
MaxReads == 1
\* number of async_close calls explored
MaxCloses == 2
\* number of inbound MQTT messages delivered
MaxInbound == 2

(* --------------------------- program constants ------------------------- *)
\* mqtt_client.py:41  self.reconnect_interval = 1
InitialInterval == 1
\* mqtt_client.py:126 min(self.reconnect_interval * 2, 900)
MaxInterval == 900

VARIABLES
    \* ---- MQTTClient state
    reconnect_interval,  \* self.reconnect_interval
    publish_queue,       \* self.publish_queue, pending items in queue order
    connected,           \* self.asyncio_client holds a live broker connection
    fresh,               \* self.asyncio_client has not been used to connect yet
    pc,                  \* position of start_client / _subscribe_manager
    session,             \* number of sessions whose connect succeeded
    drain,               \* per session: state of its _handle_publish task
    inflight,            \* per session: item its drain task is publishing
    dispatch,            \* per session: state of its handle_messages task
    \* ---- observations of the MQTT half
    sleep_for,           \* argument of the asyncio.sleep in progress / last made
    prev_interval,       \* reconnect_interval read by the last except handler
    sleeps,              \* sleeps since start / the last successful connect
    last_failure,        \* which await raised the last MqttError
    sent,                \* number of send_message calls made
    enqueued,            \* items that entered the queue, in order
    offline_pending,     \* pending items that were enqueued with no session connected
    handed,              \* items passed to self.publish, in order
    published,           \* items whose publish completed
    stream,              \* inbound messages delivered to a session's stream, unread
    consumed,            \* inbound messages read from a stream by a dispatch task
    callbacks,           \* callback(topic, payload) invocations, in order
    \* ---- Modbus state
    _client,             \* self._client : "handle" or "none" (None)
    _lock,               \* holder of self._lock, or "free"
    cpc,                 \* position of async_close
    closes,              \* close() calls made on the underlying client
    close_calls,         \* async_close calls started
    link_up,             \* the serial device can be opened (connect() would succeed)
    connect_calls,       \* self._client.connect() calls made
    rpc,                 \* per caller: position inside a read method
    req,                 \* per caller: the request passed to the bus client
    call,                \* per caller: the arguments of the read call
    result,              \* per caller: how its last read call ended
    reads                \* per caller: number of read calls made

mqttVars == <<reconnect_interval, publish_queue, connected, fresh, pc, session,
              drain, inflight, dispatch, sleep_for, prev_interval, sleeps,
              last_failure, sent, enqueued, offline_pending, handed, published,
              stream, consumed, callbacks>>
modbusVars == <<_client, _lock, cpc, closes, close_calls, link_up, connect_calls,
               rpc, req, call, result, reads>>
vars == <<mqttVars, modbusVars>>

(* ------------------------------ helpers -------------------------------- *)
Min(a, b) == IF a <= b THEN a ELSE b
Range(s) == {s[i] : i \in DOMAIN s}
Sessions == 1..MaxSessions
NoItem == <<>>

(* ============================ MQTT half ================================ *)

\* inputs of send_message: payload is a str or a dict (one key)
Str(s) == [kind |-> "str", key |-> "", val |-> s]
Dict(k, v) == [kind |-> "dict", key |-> k, val |-> v]
Topics == {"boneio/relay/1"}
Payloads == {Str("ON"), Dict("state", "ON"), Str("{\"state\": \"ON\"}")}

\* json.dumps of a one-key dict of strings
json_dumps(d) == "{\"" \o d.key \o "\": \"" \o d.val \o "\"}"

\* mqtt_client.py:109
to_publish(topic, payload) ==
    <<topic, IF payload.kind = "dict" THEN json_dumps(payload) ELSE payload.val>>

\* UniqueQueue.put_nowait: an item equal to a pending one is not added again
put_nowait(q, item) == IF item \in Range(q) THEN q ELSE Append(q, item)

\* UniqueQueue.get on a non-empty queue: oldest pending item, and the rest
get_item(q) == Head(q)
get_rest(q) == Tail(q)

\* mqtt_client.py:126
backoff_nocap(interval) == interval * 2
backoff_wrap(interval) ==
    IF interval = MaxInterval THEN InitialInterval ELSE Min(interval * 2, MaxInterval)
backoff(interval) == Min(interval * 2, MaxInterval)

\* mqtt_client.py:132: the sleep reads self.reconnect_interval after line 126
sleep_duration_stale(before, after) == before
sleep_duration(before, after) == after

\* mqtt_client.py:143
interval_after_connect_keep(interval) == interval
interval_after_connect(interval) == 1

Alive(t) == drain[t] \in {"waiting", "publishing", "stale"}
AliveDrains == {t \in Sessions : Alive(t)}
AliveDispatch == {t \in Sessions : dispatch[t] = "running"}

MqttInit ==
    /\ reconnect_interval = InitialInterval
    /\ publish_queue = <<>>
    /\ connected = FALSE
    /\ fresh = TRUE
    /\ pc = "connect"
    /\ session = 0
    /\ drain = [t \in Sessions |-> "none"]
    /\ inflight = [t \in Sessions |-> NoItem]
    /\ dispatch = [t \in Sessions |-> "none"]
    /\ sleep_for = 0
    /\ prev_interval = 0
    /\ sleeps = <<>>
    /\ last_failure = "none"
    /\ sent = 0
    /\ enqueued = <<>>
    /\ offline_pending = {}
    /\ handed = <<>>
    /\ published = <<>>
    /\ stream = <<>>
    /\ consumed = <<>>
    /\ callbacks = <<>>

producerVars == <<sent, enqueued, offline_pending>>
taskVars == <<drain, inflight, dispatch>>
logVars == <<handed, published>>
inboundVars == <<stream, consumed, callbacks>>
backoffVars == <<reconnect_interval, sleep_for, prev_interval, sleeps, last_failure>>

\* mqtt_client.py:107-110 with a plain queue (no pending-dedup)
send_message_plain(topic, payload) ==
    /\ sent < MaxSends
    /\ sent' = sent + 1
    /\ publish_queue' = Append(publish_queue, to_publish(topic, payload))
    /\ enqueued' = IF to_publish(topic, payload) \in Range(publish_queue)
                   THEN enqueued
                   ELSE Append(enqueued, to_publish(topic, payload))
    /\ offline_pending' = IF connected \/ to_publish(topic, payload) \in Range(publish_queue)
                          THEN offline_pending
                          ELSE offline_pending \cup {to_publish(topic, payload)}
    /\ UNCHANGED <<connected, fresh, pc, session, taskVars, logVars, backoffVars>>
    /\ UNCHANGED modbusVars
    /\ UNCHANGED inboundVars

\* mqtt_client.py:107-110
send_message(topic, payload) ==
    /\ sent < MaxSends
    /\ sent' = sent + 1
    /\ publish_queue' = put_nowait(publish_queue, to_publish(topic, payload))
    /\ enqueued' = IF to_publish(topic, payload) \in Range(publish_queue)
                   THEN enqueued
                   ELSE Append(enqueued, to_publish(topic, payload))
    /\ offline_pending' = IF connected \/ to_publish(topic, payload) \in Range(publish_queue)
                          THEN offline_pending
                          ELSE offline_pending \cup {to_publish(topic, payload)}
    /\ UNCHANGED <<connected, fresh, pc, session, taskVars, logVars, backoffVars>>
    /\ UNCHANGED modbusVars
    /\ UNCHANGED inboundVars

\* mqtt_client.py:125-132: the except MqttError handler up to the sleep
HandleMqttError(cause) ==
    /\ prev_interval' = reconnect_interval
    /\ reconnect_interval' = backoff(reconnect_interval)
    /\ sleep_for' = sleep_duration(reconnect_interval, backoff(reconnect_interval))
    /\ sleeps' = IF Len(sleeps) < SleepLogLen
                 THEN Append(sleeps, sleep_duration(reconnect_interval,
                                                    backoff(reconnect_interval)))
                 ELSE sleeps
    /\ last_failure' = cause
    /\ pc' = "sleep"

\* mqtt_client.py:137: leaving the AsyncExitStack disconnects the client; the
\* tasks in `tasks` are not touched. A publish awaiting its confirmation on
\* the disconnected client can only time out.
Teardown(d) == [t \in Sessions |-> IF d[t] = "publishing" THEN "stale" ELSE d[t]]

\* mqtt_client.py:141 raises MqttError
ConnectFail ==
    /\ pc = "connect"
    /\ fresh' = FALSE
    /\ HandleMqttError("connect")
    /\ UNCHANGED <<publish_queue, connected, session, taskVars, logVars, producerVars>>
    /\ UNCHANGED modbusVars
    /\ UNCHANGED inboundVars

\* mqtt_client.py:141-159: connect succeeds, interval reset, both tasks
\* created, subscribe issued (first suspension point after the connect)
ConnectOk ==
    /\ pc = "connect"
    /\ session < MaxSessions
    /\ session' = session + 1
    /\ fresh' = FALSE
    /\ connected' = TRUE
    /\ reconnect_interval' = interval_after_connect(reconnect_interval)
    /\ sleeps' = <<>>
    /\ drain' = [drain EXCEPT ![session + 1] = "waiting"]
    /\ dispatch' = [dispatch EXCEPT ![session + 1] = "running"]
    /\ last_failure' = "none"
    /\ pc' = "subscribe"
    /\ UNCHANGED <<publish_queue, inflight, sleep_for, prev_interval,
                   logVars, producerVars>>
    /\ UNCHANGED modbusVars
    /\ UNCHANGED inboundVars

\* mqtt_client.py:159 completes; line 162 starts waiting on the tasks
SubscribeOk ==
    /\ pc = "subscribe"
    /\ connected
    /\ pc' = "gather"
    /\ UNCHANGED <<publish_queue, connected, fresh, session, taskVars, logVars,
                   producerVars, reconnect_interval, sleep_for, prev_interval,
                   sleeps, last_failure>>
    /\ UNCHANGED modbusVars
    /\ UNCHANGED inboundVars

\* mqtt_client.py:159 raises MqttError (error or timeout)
SubscribeFail ==
    /\ pc = "subscribe"
    /\ connected' = FALSE
    /\ drain' = Teardown(drain)
    /\ HandleMqttError("subscribe")
    /\ UNCHANGED <<publish_queue, fresh, session, inflight, dispatch, logVars,
                   producerVars>>
    /\ UNCHANGED modbusVars
    /\ UNCHANGED inboundVars

\* mqtt_client.py:162: gather re-raises the MqttError of a task of this session
GatherRaise ==
    /\ pc = "gather"
    /\ \/ drain[session] = "failed"
       \/ dispatch[session] = "failed"
    /\ connected' = FALSE
    /\ drain' = Teardown(drain)
    /\ HandleMqttError(IF drain[session] = "failed" THEN "publish" ELSE "stream")
    /\ UNCHANGED <<publish_queue, fresh, session, inflight, dispatch, logVars,
                   producerVars>>
    /\ UNCHANGED modbusVars
    /\ UNCHANGED inboundVars

\* mqtt_client.py:132-133 and back to 122-124, without the while loop
start_client_once ==
    /\ pc = "sleep"
    /\ fresh' = TRUE
    /\ pc' = "returned"
    /\ UNCHANGED <<publish_queue, connected, session, taskVars, logVars,
                   producerVars, backoffVars>>
    /\ UNCHANGED modbusVars
    /\ UNCHANGED inboundVars

\* mqtt_client.py:132-133 and back to 122-124: sleep over, new client, retry
start_client_retry ==
    /\ pc = "sleep"
    /\ fresh' = TRUE
    /\ pc' = "connect"
    /\ UNCHANGED <<publish_queue, connected, session, taskVars, logVars,
                   producerVars, backoffVars>>
    /\ UNCHANGED modbusVars
    /\ UNCHANGED inboundVars

\* the broker connection drops while a session is up
ConnectionLost ==
    /\ pc \in {"subscribe", "gather"}
    /\ connected
    /\ connected' = FALSE
    /\ drain' = Teardown(drain)
    /\ UNCHANGED <<publish_queue, fresh, pc, session, inflight, dispatch, logVars,
                   producerVars, backoffVars>>
    /\ UNCHANGED modbusVars
    /\ UNCHANGED inboundVars

\* mqtt_client.py:115-116: get returns and self.publish is called in the same
\* task step; on a client without connection the publish raises at once
_handle_publish_get(t) ==
    /\ drain[t] = "waiting"
    /\ publish_queue # <<>>
    /\ publish_queue' = get_rest(publish_queue)
    /\ handed' = Append(handed, get_item(publish_queue))
    /\ offline_pending' = offline_pending \ {get_item(publish_queue)}
    /\ drain' = [drain EXCEPT ![t] = IF connected THEN "publishing" ELSE "failed"]
    /\ inflight' = [inflight EXCEPT ![t] = IF connected THEN get_item(publish_queue)
                                                       ELSE NoItem]
    /\ UNCHANGED <<connected, fresh, pc, session, dispatch, published,
                   sent, enqueued, backoffVars>>
    /\ UNCHANGED modbusVars
    /\ UNCHANGED inboundVars

\* mqtt_client.py:116-117: publish confirmed, task_done, back to get
_handle_publish_done(t) ==
    /\ drain[t] = "publishing"
    /\ published' = Append(published, inflight[t])
    /\ drain' = [drain EXCEPT ![t] = "waiting"]
    /\ inflight' = [inflight EXCEPT ![t] = NoItem]
    /\ UNCHANGED <<publish_queue, connected, fresh, pc, session, dispatch, handed,
                   producerVars, backoffVars>>
    /\ UNCHANGED modbusVars
    /\ UNCHANGED inboundVars

\* mqtt_client.py:116 raises, with the item put back on the queue
_handle_publish_raise_requeue(t) ==
    /\ drain[t] \in {"publishing", "stale"}
    /\ drain' = [drain EXCEPT ![t] = "failed"]
    /\ inflight' = [inflight EXCEPT ![t] = NoItem]
    /\ publish_queue' = put_nowait(publish_queue, inflight[t])
    /\ UNCHANGED <<connected, fresh, pc, session, dispatch, logVars,
                   producerVars, backoffVars>>
    /\ UNCHANGED modbusVars
    /\ UNCHANGED inboundVars

\* mqtt_client.py:116 raises MqttError (error or timeout): the task ends
_handle_publish_raise(t) ==
    /\ drain[t] \in {"publishing", "stale"}
    /\ drain' = [drain EXCEPT ![t] = "failed"]
    /\ inflight' = [inflight EXCEPT ![t] = NoItem]
    /\ UNCHANGED <<publish_queue, connected, fresh, pc, session, dispatch, logVars,
                   producerVars, backoffVars>>
    /\ UNCHANGED modbusVars
    /\ UNCHANGED inboundVars

\* mqtt_client.py:167: the inbound stream of a disconnected client raises
handle_messages_raise(t) ==
    /\ dispatch[t] = "running"
    /\ ~connected \/ t # session
    /\ dispatch' = [dispatch EXCEPT ![t] = "failed"]
    /\ UNCHANGED <<publish_queue, connected, fresh, pc, session, drain, inflight,
                   logVars, producerVars, backoffVars>>
    /\ UNCHANGED modbusVars
    /\ UNCHANGED inboundVars

\* payloads of inbound messages are bytes: b"ON", b"OFF" and b"\xff"
InboundPayloads == {<<79, 78>>, <<79, 70, 70>>, <<255>>}

\* mqtt_client.py:168: bytes.decode() is strict UTF-8. Of the bytes used
\* here those below 128 are one character each and 255 starts no character
\* (UnicodeDecodeError). A text is the sequence of its characters.
Chr(n) == CASE n = 70 -> "F" [] n = 78 -> "N" [] n = 79 -> "O"
utf8_valid(bytes) == \A i \in 1..Len(bytes) : bytes[i] < 128
decode(bytes) == [i \in 1..Len(bytes) |-> Chr(bytes[i])]

\* the next unread message of the stream of session t
HasNext(t) == \E i \in 1..Len(stream) : stream[i].s = t
next_message(t) ==
    CHOOSE i \in 1..Len(stream) :
        stream[i].s = t /\ \A j \in 1..(i - 1) : stream[j].s # t
remove_at(seq, i) == SubSeq(seq, 1, i - 1) \o SubSeq(seq, i + 1, Len(seq))

\* mqtt_client.py:149-151: the broker delivers a message on the subscribed
\* topic; it is appended to the unfiltered stream of the running session
message_arrives(topic, payload) ==
    /\ pc = "gather"
    /\ connected
    /\ Len(stream) + Len(consumed) < MaxInbound
    /\ stream' = Append(stream, [s |-> session, topic |-> topic, payload |-> payload])
    /\ UNCHANGED <<publish_queue, connected, fresh, pc, session, taskVars, logVars,
                   producerVars, backoffVars, consumed, callbacks>>
    /\ UNCHANGED modbusVars

\* mqtt_client.py:167-170: one turn of the `async for` loop. The payload is
\* decoded and the callback, a plain function, is called and returns in the
\* same task step; a payload that does not decode raises UnicodeDecodeError
\* before the callback and ends the task.
handle_messages_next(t) ==
    /\ dispatch[t] = "running"
    /\ HasNext(t)
    /\ stream' = remove_at(stream, next_message(t))
    /\ consumed' = Append(consumed, stream[next_message(t)])
    /\ IF utf8_valid(stream[next_message(t)].payload)
       THEN /\ callbacks' = Append(callbacks,
                                   <<stream[next_message(t)].topic,
                                     decode(stream[next_message(t)].payload)>>)
            /\ UNCHANGED dispatch
       ELSE /\ dispatch' = [dispatch EXCEPT ![t] = "crashed"]
            /\ UNCHANGED callbacks
    /\ UNCHANGED <<publish_queue, connected, fresh, pc, session, drain, inflight,
                   logVars, producerVars, backoffVars>>
    /\ UNCHANGED modbusVars

\* mqtt_client.py:162, 123-125: the gather re-raises the UnicodeDecodeError
\* of the dispatch task; it is not an MqttError, so after the AsyncExitStack
\* has disconnected the client it leaves start_client
start_client_raise ==
    /\ pc = "gather"
    /\ dispatch[session] = "crashed"
    /\ pc' = "raised"
    /\ connected' = FALSE
    /\ drain' = Teardown(drain)
    /\ UNCHANGED <<publish_queue, fresh, session, inflight, dispatch, logVars,
                   producerVars, backoffVars>>
    /\ UNCHANGED modbusVars
    /\ UNCHANGED inboundVars

Inbound ==
    \/ \E topic \in Topics, payload \in InboundPayloads : message_arrives(topic, payload)
    \/ \E t \in Sessions : handle_messages_next(t)
    \/ start_client_raise

\* asyncio.gather (mqtt_client.py:162): cancelling the awaiting coroutine
\* cancels the awaitables it was given, and nothing else
gather_cancel(states, t, alive) ==
    [u \in Sessions |-> IF u = t /\ states[u] \in alive THEN "cancelled" ELSE states[u]]

\* mqtt_client.py:119-133: the task running start_client is cancelled.
\* CancelledError is raised at the await the coroutine is suspended in
\* (lines 141, 159, 162 or 132) and is not an MqttError, so it leaves
\* start_client; on its way out of _subscribe_manager the AsyncExitStack
\* (line 137) disconnects the client. Only a cancellation arriving in the
\* gather on line 162 reaches the two tasks of the current session.
start_client_cancel ==
    /\ pc \in {"connect", "subscribe", "gather", "sleep"}
    /\ pc' = "cancelled"
    /\ connected' = FALSE
    /\ IF pc = "gather"
       THEN /\ drain' = Teardown(gather_cancel(drain, session,
                                               {"waiting", "publishing", "stale"}))
            /\ dispatch' = gather_cancel(dispatch, session, {"running"})
            /\ inflight' = [inflight EXCEPT ![session] = NoItem]
       ELSE /\ drain' = IF pc = "subscribe" THEN Teardown(drain) ELSE drain
            /\ UNCHANGED <<dispatch, inflight>>
    /\ UNCHANGED <<publish_queue, fresh, session, logVars, producerVars, backoffVars>>
    /\ UNCHANGED modbusVars
    /\ UNCHANGED inboundVars

Supervisor ==
    \/ ConnectFail
    \/ ConnectOk
    \/ SubscribeOk
    \/ SubscribeFail
    \/ GatherRaise
    \/ start_client_retry

Tasks ==
    \/ \E t \in Sessions : _handle_publish_get(t)
    \/ \E t \in Sessions : _handle_publish_done(t)
    \/ \E t \in Sessions : _handle_publish_raise(t)
    \/ \E t \in Sessions : handle_messages_raise(t)

Environment ==
    \/ \E topic \in Topics, payload \in Payloads : send_message(topic, payload)
    \/ ConnectionLost

(* =========================== Modbus half =============================== *)

\* The read methods are plain blocking functions; their callers run them
\* from concurrent contexts (worker threads), so a read is not atomic with
\* respect to another read or to async_close.
Callers == {"poller1", "poller2"}
Methods == {"read_single_register", "read_multiple_registers"}
NoneUnit == [none |-> TRUE, v |-> 0]
Unit(n) == [none |-> FALSE, v |-> n]
Units == {NoneUnit, Unit(0), Unit(1)}
Addresses == {0, 6}
Counts == {1, 2}
NoCall == [method |-> "-", unit |-> NoneUnit, address |-> 0, count |-> 0]
NoReq == [address |-> 0, has_unit |-> FALSE, unit |-> 0, has_count |-> FALSE, count |-> 0]

\* Python truth value of the unit argument (modbus.py:74, 96)
Truthy(unit) == ~unit.none /\ unit.v # 0

\* modbus.py:71, 93: `not self._pymodbus_connect` tests the bound method
\* object, which is always true; the method is not called
connect_check == TRUE

\* modbus.py:71, 93: the test does not run _pymodbus_connect (lines 58-67),
\* so a read method makes no connect() call of its own
calls_connect == FALSE

\* modbus.py:74-78, 96-100: the arguments given to read_input_registers
request(unit, address, count) ==
    IF Truthy(unit)
    THEN [address |-> address, has_unit |-> TRUE, unit |-> unit.v,
          has_count |-> TRUE, count |-> count]
    ELSE [address |-> address, has_unit |-> FALSE, unit |-> 0,
          has_count |-> FALSE, count |-> 0]

\* modbus.py:24-44: the constructor leaves a handle, or None when
\* ModbusSerialClient raised ModbusException
ModbusInit ==
    /\ _client \in {"handle", "none"}
    /\ _lock = "free"
    /\ cpc = "idle"
    /\ closes = 0
    /\ close_calls = 0
    /\ link_up \in BOOLEAN
    /\ connect_calls = 0
    /\ rpc = [c \in Callers |-> "idle"]
    /\ req = [c \in Callers |-> NoReq]
    /\ call = [c \in Callers |-> NoCall]
    /\ result = [c \in Callers |-> "-"]
    /\ reads = [c \in Callers |-> 0]

\* the bus object as the MQTT specification leaves it
ModbusIdle ==
    /\ _client = "handle"
    /\ _lock = "free"
    /\ cpc = "idle"
    /\ closes = 0
    /\ close_calls = 0
    /\ link_up = TRUE
    /\ connect_calls = 0
    /\ rpc = [c \in Callers |-> "idle"]
    /\ req = [c \in Callers |-> NoReq]
    /\ call = [c \in Callers |-> NoCall]
    /\ result = [c \in Callers |-> "-"]
    /\ reads = [c \in Callers |-> 0]

\* modbus.py:69-78, 89-100: entry of a read method up to the bus request.
\* self._lock is not acquired. With self._client None the attribute access
\* self._client.read_input_registers raises AttributeError.
read_registers_call(c, method, unit, address, count) ==
    /\ rpc[c] = "idle"
    /\ reads[c] < MaxReads
    /\ reads' = [reads EXCEPT ![c] = @ + 1]
    /\ call' = [call EXCEPT ![c] = [method |-> method, unit |-> unit,
                                    address |-> address, count |-> count]]
    /\ connect_calls' = IF calls_connect THEN connect_calls + 1 ELSE connect_calls
    /\ IF ~connect_check
       THEN /\ result' = [result EXCEPT ![c] = "sentinel"]
            /\ UNCHANGED <<rpc, req>>
       ELSE IF _client = "none"
       THEN /\ result' = [result EXCEPT ![c] = "raised"]
            /\ UNCHANGED <<rpc, req>>
       ELSE /\ rpc' = [rpc EXCEPT ![c] = "inflight"]
            /\ req' = [req EXCEPT ![c] = request(unit, address, count)]
            /\ result' = [result EXCEPT ![c] = "-"]
    /\ UNCHANGED <<_client, _lock, cpc, closes, close_calls, link_up>>
    /\ UNCHANGED mqttVars

\* modbus.py:79-87, 101-107: the transaction ends with a response carrying
\* registers, a response without them, or a ModbusException; a device that
\* cannot be opened gives no response, only the exception
Responses == {"registers", "no_registers", "ModbusException"}
read_registers_return(c, response) ==
    /\ rpc[c] = "inflight"
    /\ link_up \/ response = "ModbusException"
    /\ rpc' = [rpc EXCEPT ![c] = "idle"]
    /\ result' = [result EXCEPT ![c] = IF response = "registers" THEN "reading"
                                                                ELSE "sentinel"]
    /\ UNCHANGED <<_client, _lock, cpc, closes, close_calls, link_up, connect_calls,
                   req, call, reads>>
    /\ UNCHANGED mqttVars

\* modbus.py:48-51 without the `if self._client` test
async_close_enter_unguarded ==
    /\ cpc = "idle"
    /\ close_calls < MaxCloses
    /\ _lock = "free"
    /\ _lock' = "async_close"
    /\ cpc' = "locked"
    /\ close_calls' = close_calls + 1
    /\ closes' = closes + 1
    /\ UNCHANGED <<_client, link_up, connect_calls, rpc, req, call, result, reads>>
    /\ UNCHANGED mqttVars

\* modbus.py:48-51: async_close takes the lock and closes the handle if any
async_close_enter ==
    /\ cpc = "idle"
    /\ close_calls < MaxCloses
    /\ _lock = "free"
    /\ _lock' = "async_close"
    /\ cpc' = "locked"
    /\ close_calls' = close_calls + 1
    /\ closes' = IF _client # "none" THEN closes + 1 ELSE closes
    /\ UNCHANGED <<_client, link_up, connect_calls, rpc, req, call, result, reads>>
    /\ UNCHANGED mqttVars

\* modbus.py:54-56 and the end of the `async with`: handle cleared, lock freed
async_close_exit ==
    /\ cpc = "locked"
    /\ _client' = "none"
    /\ _lock' = "free"
    /\ cpc' = "idle"
    /\ UNCHANGED <<closes, close_calls, link_up, connect_calls, rpc, req, call,
                   result, reads>>
    /\ UNCHANGED mqttVars

Readers ==
    \/ \E c \in Callers, method \in Methods, unit \in Units, address \in Addresses,
          count \in Counts : read_registers_call(c, method, unit, address, count)
    \/ \E c \in Callers, response \in Responses : read_registers_return(c, response)

Closer ==
    \/ async_close_enter
    \/ async_close_exit

(* ========================== specifications ============================= *)

Init == MqttInit /\ ModbusIdle

Next == Supervisor \/ Tasks \/ Environment

Spec == Init /\ [][Next]_vars

\* the event loop runs every ready step of start_client; connect, subscribe
\* and sleep all complete (each has a timeout); the inbound stream of a
\* disconnected client raises in its dispatch task
FairSpec ==
    /\ Spec
    /\ WF_vars(Supervisor)
    /\ WF_vars(\E t \in Sessions : t = session /\ handle_messages_raise(t))

\* the MQTT half with a cancellation of the supervisor task
NextShutdown == Next \/ start_client_cancel

SpecShutdown == Init /\ [][NextShutdown]_vars

\* the MQTT half with inbound messages on the subscribed topic
NextInbound == Next \/ Inbound

SpecInbound == Init /\ [][NextInbound]_vars

InitModbus == MqttInit /\ ModbusInit

NextModbus == Readers \/ Closer

SpecModbus == InitModbus /\ [][NextModbus]_vars

(* ============================== claims ================================= *)

NoDuplicates(q) == \A i, j \in DOMAIN q : q[i] = q[j] => i = j
InFlight(c) == rpc[c] = "inflight"

\* C1 (as claimed): every backoff sleep lasts the interval stored before the
\* failure's doubling, so the first failure after start or after a
\* successful connection sleeps 1 s and the second consecutive one 2 s.
C1_SleepsIntervalBeforeDoubling ==
    /\ pc = "sleep" => sleep_for = prev_interval
    /\ Len(sleeps) >= 1 => sleeps[1] = 1
    /\ Len(sleeps) >= 2 => sleeps[2] = 2

\* C1 (amended): on every transport failure the stored interval is first
\* replaced by min(2 * interval, 900) and the backoff sleep lasts that new
\* value; the first failure after start or after a successful connection
\* sleeps 2 s and the second consecutive one 4 s.
C1_SleepsDoubledInterval ==
    /\ pc = "sleep" => /\ sleep_for = Min(2 * prev_interval, 900)
                       /\ reconnect_interval = sleep_for
    /\ Len(sleeps) >= 1 => sleeps[1] = 2
    /\ Len(sleeps) >= 2 => sleeps[2] = 4

\* two consecutive connection failures from a fresh start, second sleep running
C1_Witness == pc = "sleep" /\ session = 0 /\ Len(sleeps) = 2

\* C2: in every reachable state 1 <= reconnect_interval <= 900.
C2_IntervalWithinBounds == 1 <= reconnect_interval /\ reconnect_interval <= 900

\* the cap is reached by consecutive failures after an earlier session
C2_Witness == session >= 1 /\ pc = "sleep" /\ prev_interval > 450

\* C3: when a session has ended by failure no drain or dispatch task of it
\* is alive at the next connection attempt, and at most one drain task and
\* at most one dispatch task are alive at any time.
C3_TasksCancelledBeforeRetry ==
    /\ pc = "connect" => AliveDrains = {} /\ AliveDispatch = {}
    /\ Cardinality(AliveDrains) <= 1
    /\ Cardinality(AliveDispatch) <= 1

\* C4: an item enqueued while no session was connected stays in the queue
\* as long as no session is connected (it leaves the queue only towards a
\* connected broker, never into a publish that cannot reach it).
C4_OutageMessagesStayQueued ==
    [][~connected => \A m \in offline_pending : m \in Range(publish_queue')]_vars

\* C5: the items handed to the publish operation are, in order, the items
\* that entered the queue (the sequence of hand-offs is a prefix of the
\* sequence of enqueues), whatever failures and reconnects happened.
C5_PublishOrderIsEnqueueOrder ==
    /\ Len(handed) <= Len(enqueued)
    /\ \A i \in 1..Len(handed) : handed[i] = enqueued[i]

\* two distinct items handed over, the second after a failed session
C5_Witness ==
    /\ Len(handed) = 2
    /\ handed[1] # handed[2]
    /\ session = 2
    /\ published = <<handed[2]>>

\* C6: the queue never holds two equal pending items, and every item that
\* entered the queue is pending or was handed to publish exactly once
\* (a send of an item equal to a pending one adds no publish attempt).
C6_PendingDedup ==
    /\ NoDuplicates(publish_queue)
    /\ Len(handed) + Len(publish_queue) = Len(enqueued)

\* the same item sent twice while the first instance is still queued
C6_Witness == sent = 2 /\ Len(enqueued) = 1 /\ Len(publish_queue) = 1 /\ handed = <<>>

\* C7: a read transaction in flight holds the lock async_close acquires, no
\* two transactions are in flight at once, and async_close never holds the
\* lock (about to clear the handle) while a read is in flight.
C7_ReadsHoldBusLock ==
    /\ \A c \in Callers : InFlight(c) => _lock = c
    /\ Cardinality({c \in Callers : InFlight(c)}) <= 1
    /\ cpc = "locked" => \A c \in Callers : ~InFlight(c)

\* C8: no read call ever raises; it ends with a reading or the sentinel.
C8_ReadsNeverRaise == \A c \in Callers : result[c] # "raised"

\* C9 (as claimed): the stored interval is reset to 1 only by the step that
\* completes the control-topic subscription.
C9_ResetOnlyAfterSubscribe ==
    [][(reconnect_interval # 1 /\ reconnect_interval' = 1) => pc' = "gather"]_vars

\* C9 (amended): the interval is reset to 1 as soon as the broker connect
\* succeeds, before the subscription completes: it is 1 throughout a
\* session, and after any failure of a connected session (subscribe
\* failure included) the stored interval is 2, so connect-ok/subscribe-fail
\* cycles do not grow the backoff.
C9_ResetOnConnect ==
    /\ pc \in {"subscribe", "gather"} => reconnect_interval = 1
    /\ (pc = "sleep" /\ last_failure # "connect") => reconnect_interval = 2

\* a second session in a row whose connect succeeded and whose subscribe failed
C9_Witness ==
    /\ pc = "sleep"
    /\ last_failure = "subscribe"
    /\ session = 2
    /\ sleeps = <<reconnect_interval>>

\* C10: start_client never returns; from every backoff sleep, and from every
\* failure of the current session (connection lost, drain or dispatch task
\* failed), the supervisor reaches a new connection attempt on a fresh client.
SessionFailed ==
    /\ pc \in {"subscribe", "gather"}
    /\ \/ ~connected
       \/ drain[session] = "failed"
       \/ dispatch[session] = "failed"
C12_CloseIdempotent ==
    /\ [](closes <= 1)
    /\ [](cpc = "idle" => _lock = "free")
    /\ [][(cpc = "idle" /\ cpc' = "locked" /\ _client = "none") =>
              (closes' = closes /\ _client' = "none")]_vars
    /\ [][(cpc = "locked" /\ cpc' = "idle") =>
              (_client' = "none" /\ _lock' = "free" /\ closes' = closes)]_vars

\* a second async_close call has completed after the first one closed the handle
C12_Witness == close_calls = 2 /\ cpc = "idle" /\ closes = 1 /\ _client = "none"

\* C18: a register-read request is on the bus only after the read method
\* made its connect() call, and never when the device cannot be opened.
C18_ConnectBeforeRequest ==
    \A c \in Callers : InFlight(c) => (connect_calls > 0 /\ link_up)

\* C19: the request in flight carries the address and the register count of
\* the call, whatever the unit argument is.
C19_RequestCarriesAddressAndCount ==
    \A c \in Callers :
        InFlight(c) => /\ req[c].address = call[c].address
                       /\ req[c].has_count
                       /\ req[c].count = call[c].count

\* C15: a step that enters the failure handler takes reconnect_interval from
\* p to exactly min(2p, 900), so 900 stays 900; the only other change of the
\* stored interval is the reset to 1 made by a successful connection.
C15_IntervalTransitions ==
    [][/\ (pc # "sleep" /\ pc' = "sleep") =>
              reconnect_interval' = Min(2 * reconnect_interval, 900)
       /\ (reconnect_interval' # reconnect_interval) =>
              \/ pc # "sleep" /\ pc' = "sleep"
              \/ reconnect_interval' = 1 /\ pc = "connect" /\ pc' = "subscribe"]_vars

\* a failure handled with the stored interval already at the cap
C15_Witness == pc = "sleep" /\ prev_interval = 900 /\ reconnect_interval = 900

\* C11: a message enqueued while no connection existed is taken from the
\* queue and published only after the session's subscription has succeeded
\* (never while the supervisor still awaits the subscription), and no
\* enqueued message is published more than once.
C11_QueuedPublishedOnceAfterSubscribe ==
    /\ [][pc = "subscribe" => offline_pending \subseteq offline_pending']_vars
    /\ [](Len(published) <= Len(enqueued))

\* C14: while the session's subscription has not completed neither of its
\* tasks exists, a failed subscription leaves no task of the session
\* behind, and nothing is dequeued before the subscription succeeded.
C14_SubscribeBeforeTasks ==
    /\ pc = "subscribe" => (drain[session] = "none" /\ dispatch[session] = "none")
    /\ (pc = "sleep" /\ last_failure = "subscribe") =>
           (drain[session] = "none" /\ dispatch[session] = "none")

\* C16: a publish failure is raised only in the drain task of the session
\* the supervisor is currently running, where the supervisor observes it,
\* and the failed message does not return to the queue.
C16_PublishFailureObserved ==
    [][\A t \in Sessions :
          (drain[t] # "failed" /\ drain'[t] = "failed") =>
              /\ t = session
              /\ pc \in {"subscribe", "gather"}
              /\ Len(publish_queue') <= Len(publish_queue)]_vars

\* C20: acknowledgements (one per completed publish) never exceed dequeues,
\* and when the queue is empty and no publish is in flight every dequeued
\* message has been acknowledged.
C20_AcksMatchDequeues ==
    /\ Len(published) <= Len(handed)
    /\ (publish_queue = <<>> /\ \A t \in Sessions : inflight[t] = NoItem) =>
           Len(handed) = Len(published)

\* C13: once the supervisor task has been cancelled, no drain task and no
\* dispatch task spawned by any of its sessions is still running.
C13_CancelLeavesNoTask ==
    pc = "cancelled" => (AliveDrains = {} /\ AliveDispatch = {})

\* C17: the callback is invoked exactly once for each message consumed
\* from the stream, in the order of consumption, with the message's topic
\* and its decoded payload: the sequence of callback invocations equals the
\* sequence of consumed messages.
C17_CallbackPerMessageInOrder ==
    /\ Len(callbacks) = Len(consumed)
    /\ \A i \in 1..Len(callbacks) :
           callbacks[i] = <<consumed[i].topic, decode(consumed[i].payload)>>
====
